---------------------------- MODULE Spec2Model ----------------------------
(***************************************************************************)
(* A model of Sky_O2O.py: the Whirlpool account decoder, the conversion of *)
(* a Q64.64 square-root price into a decimal spot price, the pairwise      *)
(* arbitrage comparison, and the scan (main) with its polling loop and the *)
(* signal.json file.                                                       *)
(*                                                                         *)
(* Python's Decimal arithmetic is modelled digit by digit: TLC's integers  *)
(* are 32 bits wide and the program computes with 18 significant digits on *)
(* 128-bit inputs.  A natural number is the sequence of its decimal        *)
(* digits, least significant first, without leading zeros (0 is << >>).    *)
(* A Decimal is [neg, c, e] standing for (-1)^neg * c * 10^e, kept in      *)
(* normal form (c has no trailing zero), so that = on the records is       *)
(* Python's == on the values.                                              *)
(***************************************************************************)
EXTENDS Integers, Sequences, FiniteSets, TLC

VARIABLES
    pc,             \* where the process is: main's steps, the loop, the end
    poll,           \* POLL_INTERVAL > 0 (line 20, read once at start-up)
    loadIdx,        \* main's for loop over PREDEFINED_POOLS: next index
    fetched,        \* what the RPC client answered in this scan, per pool
    pools_data,     \* main's pools_data
    opportunities,  \* the module-level opportunities
    signal_file,    \* signal.json: NoFile or its content
    signal_fresh,   \* signal.json was written by the current iteration
    quotes,         \* the argument of find_arbitrage_opportunities
    result,         \* its return value on quotes
    resultRev,      \* its return value on the two quotes swapped
    sqA, sqB,       \* two sqrt_price_x64 inputs, sqA < sqB
    priceA, priceB  \* sqrt_price_to_price of each

vars == << pc, poll, loadIdx, fetched, pools_data, opportunities, signal_file,
           signal_fresh, quotes, result, resultRev, sqA, sqB, priceA, priceB >>

-----------------------------------------------------------------------------
(* Natural numbers of any size (Python's int).  Sums and differences     *)
(* find each carry by looking back over the lower digits, and products and *)
(* quotients split their operands in parts: the depth of an evaluation    *)
(* grows with the logarithm of the number of digits only.                  *)

Max(m, n) == IF m >= n THEN m ELSE n

\* a without its leading (most significant) zeros
Norm(a) ==
    IF \A i \in 1..Len(a) : a[i] = 0 THEN << >>
    ELSE SubSeq(a, 1, CHOOSE i \in 1..Len(a) :
                          a[i] # 0 /\ \A j \in (i + 1)..Len(a) : a[j] = 0)

\* a with leading zeros up to n digits
Pad(a, n) == a \o [i \in 1..(n - Len(a)) |-> 0]

BigAdd(a, b) ==
    LET n == Max(Len(a), Len(b)) + 1
        x == Pad(a, n)
        y == Pad(b, n)
        carry(i) == \E j \in 1..(i - 1) :
                        /\ x[j] + y[j] >= 10
                        /\ \A k \in (j + 1)..(i - 1) : x[k] + y[k] = 9
    IN  Norm(<< >> \o [i \in 1..n |->
                 (x[i] + y[i] + (IF carry(i) THEN 1 ELSE 0)) % 10])

\* a - b, for a >= b
BigSub(a, b) ==
    LET n == Len(a)
        y == Pad(b, n)
        borrow(i) == \E j \in 1..(i - 1) :
                         /\ a[j] < y[j]
                         /\ \A k \in (j + 1)..(i - 1) : a[k] = y[k]
    IN  Norm(<< >> \o [i \in 1..n |->
                 (a[i] - y[i] - (IF borrow(i) THEN 1 ELSE 0) + 10) % 10])

\* -1, 0 or 1 as a < b, a = b or a > b
BigCmp(a, b) ==
    IF Len(a) > Len(b) THEN 1
    ELSE IF Len(a) < Len(b) THEN -1
    ELSE IF a = b THEN 0
    ELSE LET i == CHOOSE k \in 1..Len(a) :
                      a[k] # b[k] /\ \A j \in (k + 1)..Len(a) : a[j] = b[j]
         IN  IF a[i] > b[i] THEN 1 ELSE -1

\* a * 10^k
Shift10(a, k) == IF a = << >> THEN << >> ELSE [i \in 1..k |-> 0] \o a

\* a * d for d in 0..10: the units of the digit products plus their tens
BigMulDigit(a, d) ==
    BigAdd(Norm(<< >> \o [i \in 1..Len(a) |-> (a[i] * d) % 10]),
           Shift10(Norm(<< >> \o [i \in 1..Len(a) |-> (a[i] * d) \div 10]), 1))

RECURSIVE BigMul(_, _)
BigMul(a, b) ==
    IF a = << >> \/ b = << >> THEN << >>
    ELSE IF Len(b) = 1 THEN BigMulDigit(a, b[1])
    ELSE LET h == Len(b) \div 2
         IN  BigAdd(BigMul(a, Norm(SubSeq(b, 1, h))),
                    Shift10(BigMul(a, SubSeq(b, h + 1, Len(b))), h))

\* one step of the long division: divmod(r, b) for r < 10 * b
QStep(r, b, d) == [q |-> << d >>, r |-> BigSub(r, BigMulDigit(b, d))]

QDigit(r, b) ==
    QStep(r, b, Cardinality({k \in 1..9 : BigCmp(BigMulDigit(b, k), r) <= 0}))

\* the long division of a's digits lo..hi by b, entered with the remainder r
\* of the digits above them; q lists the quotient's digits from the most
\* significant down
RECURSIVE DivRange(_, _, _, _, _)
DivRange(a, b, lo, hi, r) ==
    IF lo > hi THEN [q |-> << >>, r |-> r]
    ELSE IF lo = hi
    THEN QDigit(Norm(<< a[lo] >> \o r), b)
    ELSE LET n  == hi - lo + 1
             m3 == lo + (3 * n) \div 4
             m2 == lo + n \div 2
             m1 == lo + n \div 4
             p4 == DivRange(a, b, m3, hi, r)
             p3 == DivRange(a, b, m2, m3 - 1, p4.r)
             p2 == DivRange(a, b, m1, m2 - 1, p3.r)
             p1 == DivRange(a, b, lo, m1 - 1, p2.r)
         IN  [q |-> p4.q \o p3.q \o p2.q \o p1.q, r |-> p1.r]

Reverse(s) == [i \in 1..Len(s) |-> s[Len(s) + 1 - i]]

\* divmod(a, b), for b # 0
DivResult(dm) == [q |-> Norm(<< >> \o Reverse(dm.q)), r |-> dm.r]

BigDivMod(a, b) == DivResult(DivRange(a, b, 1, Len(a), << >>))

\* 2 ** k
BigSquare(a) == BigMul(a, a)

RECURSIVE Pow2(_)
Pow2(k) ==
    IF k = 0 THEN << 1 >>
    ELSE IF k % 2 = 0 THEN BigSquare(Pow2(k \div 2))
    ELSE BigMulDigit(Pow2(k - 1), 2)

\* a small natural number as a digit sequence
RECURSIVE BigOf(_)
BigOf(n) == IF n = 0 THEN << >> ELSE << n % 10 >> \o BigOf(n \div 10)

-----------------------------------------------------------------------------
(* Decimal arithmetic in the context of line 14: 18 significant digits,    *)
(* rounding half to even (the default context's rounding).                 *)

Prec == 18

DecZero == [neg |-> FALSE, c |-> << >>, e |-> 0]

\* the normal form: no trailing zero in the coefficient
DecNorm(neg, c, e) ==
    IF \A i \in 1..Len(c) : c[i] = 0 THEN DecZero
    ELSE LET z == CHOOSE i \in 1..Len(c) :
                      c[i] # 0 /\ \A j \in 1..(i - 1) : c[j] = 0
         IN  [neg |-> neg, c |-> Norm(SubSeq(c, z, Len(c))), e |-> e + z - 1]

\* (-1)^neg * c * 10^e rounded half to even to p significant digits
DecRound(p, neg, c, e) ==
    IF Len(c) <= p THEN DecNorm(neg, c, e)
    ELSE LET k    == Len(c) - p
             hi   == SubSeq(c, k + 1, Len(c))
             top  == c[k]
             rest == \E i \in 1..(k - 1) : c[i] # 0
             up   == top > 5 \/ (top = 5 /\ (rest \/ hi[1] % 2 = 1))
         IN  DecNorm(neg, IF up THEN BigAdd(hi, << 1 >>) ELSE hi, e + k)

\* the context's rounding, to Prec digits
DecFix(neg, c, e) == DecRound(Prec, neg, c, e)

\* Decimal(n) of an int: exact, whatever the context
DecOfInt(n) == DecNorm(FALSE, n, 0)

\* Decimal("0.00...0d"): the digit d at 10^-k
DecLit(d, k) == DecNorm(FALSE, BigOf(d), 0 - k)

DecMul(x, y) == DecFix(x.neg # y.neg, BigMul(x.c, y.c), x.e + y.e)

\* x ** 2: the power is computed to PowGuard more digits than the context's
\* and the result is then rounded to the context (two roundings, so that
\* x ** 2 and x * x differ on some x)
PowGuard == 3

DecRounded(x) == DecFix(x.neg, x.c, x.e)

DecSquare(x) ==
    DecRounded(DecRound(Prec + PowGuard, FALSE, BigSquare(x.c), x.e + x.e))

DecNeg(x) == IF x.c = << >> THEN x ELSE [x EXCEPT !.neg = ~x.neg]

DecAdd(x, y) ==
    LET e  == IF x.e < y.e THEN x.e ELSE y.e
        cx == Shift10(x.c, x.e - e)
        cy == Shift10(y.c, y.e - e)
    IN  IF x.neg = y.neg THEN DecFix(x.neg, BigAdd(cx, cy), e)
        ELSE IF BigCmp(cx, cy) >= 0 THEN DecFix(x.neg, BigSub(cx, cy), e)
        ELSE DecFix(y.neg, BigSub(cy, cx), e)

DecSub(x, y) == DecAdd(x, DecNeg(y))

\* x / y for y # 0: the quotient to Prec + 1 digits or more, made odd in its
\* last digit when inexact, then rounded
DecQuot(neg, dm, e) ==
    DecFix(neg,
           IF dm.r # << >> /\ (dm.q = << >> \/ dm.q[1] % 5 = 0)
           THEN BigAdd(dm.q, << 1 >>) ELSE dm.q,
           e)

DecDivShift(x, y, shift) ==
    DecQuot(x.neg # y.neg,
            BigDivMod(Shift10(x.c, Max(shift, 0)), Shift10(y.c, Max(0 - shift, 0))),
            x.e - y.e - shift)

DecDiv(x, y) ==
    IF x.c = << >> THEN DecZero
    ELSE DecDivShift(x, y, Len(y.c) - Len(x.c) + Prec + 1)

\* -1, 0 or 1 as x < y, x = y or x > y (exact: a comparison does not round)
DecCmp(x, y) ==
    LET e  == IF x.e < y.e THEN x.e ELSE y.e
        cx == Shift10(x.c, x.e - e)
        cy == Shift10(y.c, y.e - e)
    IN  IF x.neg /\ ~y.neg THEN -1
        ELSE IF ~x.neg /\ y.neg THEN 1
        ELSE IF x.neg THEN BigCmp(cy, cx)
        ELSE BigCmp(cx, cy)

DecLT(x, y) == DecCmp(x, y) < 0
DecGE(x, y) == DecCmp(x, y) >= 0

-----------------------------------------------------------------------------
(* sqrt_price_to_price                                                     *)

TwoPow64 == Pow2(64)

\* lines 99-100: price = sqrt_price ** 2, then price * 10**9 / 10**6
price_of_sqrt(sqrt_price) ==
    DecDiv(DecMul(DecSquare(sqrt_price), DecOfInt(Shift10(<< 1 >>, 9))),
           DecOfInt(Shift10(<< 1 >>, 6)))

\* the conversion of the low 64 bits of sqrt_price_x64 alone
sqrt_price_low64(sqrt_price_x64) ==
    price_of_sqrt(DecDiv(DecOfInt(BigDivMod(sqrt_price_x64, TwoPow64).r),
                         DecOfInt(TwoPow64)))

\* line 98: sqrt_price = Decimal(sqrt_price_x64) / Decimal(2 ** 64)
sqrt_price_to_price(sqrt_price_x64) ==
    price_of_sqrt(DecDiv(DecOfInt(sqrt_price_x64), DecOfInt(TwoPow64)))

-----------------------------------------------------------------------------
(* float(d) of a Decimal d: the nearest IEEE 754 double, ties to even.  A  *)
(* double is [neg, m, k] standing for (-1)^neg * m * 2^k with              *)
(* 2^52 <= m < 2^53 (0.0 is m = << >>, k = 0); the values a scan converts  *)
(* are far inside the normal range.                                        *)

MantBits == 53

FloatZero == [neg |-> FALSE, m |-> << >>, k |-> 0]

\* a * 2^j for j > 0, a otherwise
Scale2(a, j) == IF j > 0 THEN BigMul(a, Pow2(j)) ELSE a

\* n compared with d * 2^j, for any integer j
Cmp2(n, d, j) == BigCmp(Scale2(n, 0 - j), Scale2(d, j))

\* the exponent k with 2^52 <= n / (d * 2^k) < 2^53, looked for around the
\* one the numbers of digits of n and d give
FloatExp(n, d) ==
    CHOOSE k \in ((3321 * (Len(n) - Len(d))) \div 1000 - MantBits - 2)
                 ..((3322 * (Len(n) - Len(d) + 1)) \div 1000 - MantBits + 2) :
        /\ Cmp2(n, d, MantBits - 1 + k) >= 0
        /\ Cmp2(n, d, MantBits + k) < 0

FloatNorm(neg, m, k) ==
    IF m = Pow2(MantBits) THEN [neg |-> neg, m |-> Pow2(MantBits - 1), k |-> k + 1]
    ELSE [neg |-> neg, m |-> m, k |-> k]

\* dm = divmod(n * 2^-k, d * 2^k): the quotient rounded on the remainder
FloatRound(neg, dm, d, k) ==
    FloatNorm(neg,
              IF \/ BigCmp(BigMulDigit(dm.r, 2), d) > 0
                 \/ BigCmp(BigMulDigit(dm.r, 2), d) = 0 /\ dm.q[1] % 2 = 1
              THEN BigAdd(dm.q, << 1 >>) ELSE dm.q,
              k)

FloatAt(neg, n, d, k) ==
    FloatRound(neg, BigDivMod(Scale2(n, 0 - k), Scale2(d, k)), Scale2(d, k), k)

FloatOf(neg, n, d) == FloatAt(neg, n, d, FloatExp(n, d))

to_float(x) ==
    IF x.c = << >> THEN FloatZero
    ELSE FloatOf(x.neg, Shift10(x.c, Max(x.e, 0)), Shift10(<< 1 >>, Max(0 - x.e, 0)))

-----------------------------------------------------------------------------
(* The inputs the specifications draw from, and the conversion on them.    *)

MaxDelta == 1

SampleExps == {0, 1, 32, 63, 64, 96, 127}

\* 0, the powers of two 2^k with their next neighbours, and the top of the
\* unsigned 128-bit range
SqrtSamples ==
    {<< >>}
    \cup {BigAdd(Pow2(k), BigOf(d)) : k \in SampleExps, d \in 0..MaxDelta}
    \cup {BigSub(Pow2(128), BigOf(d + 1)) : d \in 0..MaxDelta}

\* the 16 bytes data[65:81] of a pool account, least significant first, with
\* the byte v at index i (from 1) and 1 at index 9: 2^64 + v * 256^(i - 1)
SqrtBytes(i, v) == [k \in 1..16 |-> IF k = i THEN v ELSE IF k = 9 THEN 1 ELSE 0]

\* sqrt_price_x64 = 0, 2^64 (price 1000) and 2^64 + 2^54 (price 1001.95...)
ScanSqrtBytes == { [k \in 1..16 |-> 0], SqrtBytes(9, 1), SqrtBytes(7, 64) }

\* int.from_bytes(b[lo..hi], "little")
RECURSIVE FromBytes(_, _, _)
FromBytes(b, lo, hi) ==
    IF lo > hi THEN << >>
    ELSE IF lo = hi THEN BigOf(b[lo])
    ELSE BigAdd(FromBytes(b, lo, (lo + hi) \div 2),
                BigMul(FromBytes(b, (lo + hi) \div 2 + 1, hi),
                       Pow2(8 * ((lo + hi) \div 2 + 1 - lo))))

from_bytes(b) == FromBytes(b, 1, Len(b))

\* the 8 bytes data[64:72] of a USDC token account: the amount 256^3
AmountBytes == { [k \in 1..8 |-> IF k = 4 THEN 1 ELSE 0] }

\* from_bytes on the bytes the specifications draw: TLC evaluates a constant
\* once, and every state reads it from here
BytesMemo == [b \in ScanSqrtBytes \cup AmountBytes |-> from_bytes(b)] @@ << >>

int_at(b) == IF b \in DOMAIN BytesMemo THEN BytesMemo[b] ELSE from_bytes(b)

\* sqrt_price_to_price on the inputs the specifications draw
PriceMemo ==
    [s \in SqrtSamples \cup {int_at(b) : b \in ScanSqrtBytes} |->
        sqrt_price_to_price(s)] @@ << >>

price_at(s) ==
    IF s \in DOMAIN PriceMemo THEN PriceMemo[s] ELSE sqrt_price_to_price(s)

-----------------------------------------------------------------------------
(* The registry, the account source and the two readers of accounts.       *)

\* lines 45-62 (fee_rate as main reads it at line 244: Decimal(str(0.0005))
\* is Decimal("0.0005"))
PREDEFINED_POOLS ==
    << [name     |-> "SOL/USDC 0.05% [VERIFIED]",
        address  |-> "7qbRF6YsyGuLUVs6Y1q64bdVrfe4ZcUUz1JRdoVNUJnm",
        fee_rate |-> DecLit(5, 4),
        vault_a  |-> "9RfZwn2Prux6QesG1Noo4HzMEBv3rPndJ2bN2Wwd6a7p",
        vault_b  |-> "BVNo8ftg2LkkssnWT4ZWdtoFaevnfD6ExYeramwM27pe"],
       [name     |-> "SOL/USDC 0.01% [VERIFIED]",
        address  |-> "83v8iPyZihDEjDdY8RdZddyZNyUtXngz69Lgo9Kt5d6d",
        fee_rate |-> DecLit(1, 4),
        vault_a  |-> "D3CDPQLoa9jY1LXCkpUqd3JQDWz8DX1LDE1dhmJt9fq4",
        vault_b  |-> "dwxR9YF7WwnJJu7bPC4UNcWFpcSsooH6fxbpoa3fTbJ"] >>

\* what client.get_account_info gives for an address: it raises (Failed), it
\* returns a response without a value (Missing), or it returns an account
Failed == [kind |-> "error"]
Missing == [kind |-> "missing"]

\* the value a function did not return because it raised
Raised == [kind |-> "raised"]

\* the accounts drawn for a SOL vault (its lamports), for a USDC vault (the
\* length of its data and the 8 bytes data[64:72]) and for a pool (the length
\* of its data and the 16 bytes data[65:81]); bytes that the data is too
\* short to hold are not read by the program
VaultAAccounts == { [kind |-> "account", lamports |-> Shift10(<< 5 >>, 9)] }

VaultBAccounts ==
    { [kind |-> "account", len |-> 165, amount |-> b] : b \in AmountBytes }

PoolAccounts ==
    { [kind |-> "account", len |-> n, sqrt |-> [k \in 1..16 |-> 0]] :
          n \in {652, 654} }
    \cup { [kind |-> "account", len |-> 653, sqrt |-> b] : b \in ScanSqrtBytes }

\* lines 78, 90, 93: the balance reported when there is none to read
zero_balance(is_usdc) ==
    [raw |-> << >>, display |-> FloatZero,
     token |-> IF is_usdc THEN "USDC" ELSE "SOL"]

\* lines 84 and 88: an int divided by 10^k, as a float
display_of(raw, k) == to_float(DecNorm(FALSE, raw, 0 - k))

\* display_of on the balances drawn
DisplayMemo ==
    [k \in {<< a.lamports, 9 >> : a \in VaultAAccounts}
           \cup {<< int_at(a.amount), 6 >> : a \in VaultBAccounts} |->
        display_of(k[1], k[2])] @@ << >>

display_at(raw, k) ==
    IF << raw, k >> \in DOMAIN DisplayMemo THEN DisplayMemo[<< raw, k >>]
    ELSE display_of(raw, k)

\* lines 82-90: the balance of a USDC token account
usdc_balance(resp) ==
    IF resp.len >= 72
    THEN [raw     |-> int_at(resp.amount),
          display |-> display_at(int_at(resp.amount), 6),
          token   |-> "USDC"]
    ELSE zero_balance(TRUE)

\* get_vault_balance whose fetch error is not caught
get_vault_balance_uncaught(resp, is_usdc) ==
    IF resp = Failed THEN Raised
    ELSE IF resp = Missing THEN zero_balance(is_usdc)
    ELSE IF is_usdc THEN usdc_balance(resp)
    ELSE [raw     |-> resp.lamports,
          display |-> display_at(resp.lamports, 9),
          token   |-> "SOL"]

\* lines 71-94, on the response resp of the account source for the vault
get_vault_balance(resp, is_usdc) ==
    IF resp = Failed THEN zero_balance(is_usdc)
    ELSE IF resp = Missing THEN zero_balance(is_usdc)
    ELSE IF is_usdc THEN usdc_balance(resp)
    ELSE [raw     |-> resp.lamports,
          display |-> display_at(resp.lamports, 9),
          token   |-> "SOL"]

\* lines 111 and 129-131: the price fields of the decoded account
decoded(sqrt_price_x64) ==
    [price |-> price_at(sqrt_price_x64), sqrt_price_x64 |-> sqrt_price_x64]

\* the length compared with < instead of !=: longer accounts are decoded
decode_whirlpool_min_len(resp) ==
    IF resp = Failed THEN Raised
    ELSE IF resp = Missing THEN Raised
    ELSE IF resp.len < 653 THEN Raised
    ELSE decoded(int_at(resp.sqrt))

\* lines 102-143, on the response resp of the account source for the pool
\* (of the decoded fields, the price and sqrt_price_x64: the liquidity, the
\* ticks and the keys are only displayed)
decode_whirlpool(resp) ==
    IF resp = Failed THEN Raised
    ELSE IF resp = Missing THEN Raised
    ELSE IF resp.len # 653 THEN Raised
    ELSE decoded(int_at(resp.sqrt))

-----------------------------------------------------------------------------
(* calculate_arbitrage_simple and find_arbitrage_opportunities             *)

MIN_PROFIT_THRESHOLD == DecLit(1, 5)
OPTIMAL_PROFIT_THRESHOLD == DecLit(1, 4)

DecOne == DecOfInt(<< 1 >>)

\* f"{a} -> {b}"
Direction(a, b) == << a, " -> ", b >>

\* lines 171-173: cost, revenue and profit_pct of buying at buy_price and
\* selling at sell_price
\* line 173: profit_pct = (revenue - cost) / cost
profit_of(cost, revenue) == DecDiv(DecSub(revenue, cost), cost)

\* the buy fee taken off the cost instead of added to it
profit_pct_fee_off(buy_price, buy_fee, sell_price, sell_fee) ==
    profit_of(DecMul(buy_price, DecSub(DecOne, buy_fee)),
              DecMul(sell_price, DecSub(DecOne, sell_fee)))

\* lines 171-172: cost and revenue of one unit bought and sold
profit_pct_of(buy_price, buy_fee, sell_price, sell_fee) ==
    profit_of(DecMul(buy_price, DecAdd(DecOne, buy_fee)),
              DecMul(sell_price, DecSub(DecOne, sell_fee)))

\* the prices and fee rates the specifications draw from
QuotePrices ==
    { DecZero, DecOne,
      DecNorm(FALSE, BigOf(100001), -5),
      DecNorm(FALSE, BigOf(10001), -4),
      DecNorm(FALSE, << 1,1,0,0,1,1,0,0,1,1,0,0,1,1,0,0,0,1 >>, -17) }

QuoteFees == { DecZero, DecLit(1, 4) }

\* profit_pct_of on the values the specifications draw: TLC evaluates a
\* constant once, and every state reads it from here
ScanPrices == {price_at(int_at(b)) : b \in ScanSqrtBytes} \ {DecZero}

ProfitKeys ==
    ((QuotePrices \ {DecZero}) \X QuoteFees
         \X (QuotePrices \ {DecZero}) \X QuoteFees)
    \cup {<< a, PREDEFINED_POOLS[p[1]].fee_rate, b, PREDEFINED_POOLS[p[2]].fee_rate >> :
              a \in ScanPrices, b \in ScanPrices,
              p \in {p \in (DOMAIN PREDEFINED_POOLS) \X (DOMAIN PREDEFINED_POOLS) :
                        p[1] # p[2]}}

ProfitMemo ==
    [k \in ProfitKeys |-> profit_pct_of(k[1], k[2], k[3], k[4])] @@ << >>

profit_pct_at(buy_price, buy_fee, sell_price, sell_fee) ==
    IF << buy_price, buy_fee, sell_price, sell_fee >> \in DOMAIN ProfitMemo
    THEN ProfitMemo[<< buy_price, buy_fee, sell_price, sell_fee >>]
    ELSE profit_pct_of(buy_price, buy_fee, sell_price, sell_fee)

\* the classification with > in place of >=
arbitrage_strict(buy, sell, profit_pct) ==
    [profitable |-> DecLT(MIN_PROFIT_THRESHOLD, profit_pct),
     optimal    |-> DecLT(OPTIMAL_PROFIT_THRESHOLD, profit_pct),
     profit_pct |-> profit_pct,
     direction  |-> Direction(buy.name, sell.name),
     buy_price  |-> buy.price,
     sell_price |-> sell.price,
     total_fees |-> DecAdd(buy.fee_rate, sell.fee_rate),
     uses_sdk   |-> FALSE]

\* lines 175-184: the returned dict, for the pool bought from, the pool sold
\* to and the profit_pct of line 173
arbitrage_of(buy, sell, profit_pct) ==
    [profitable |-> DecGE(profit_pct, MIN_PROFIT_THRESHOLD),
     optimal    |-> DecGE(profit_pct, OPTIMAL_PROFIT_THRESHOLD),
     profit_pct |-> profit_pct,
     direction  |-> Direction(buy.name, sell.name),
     buy_price  |-> buy.price,
     sell_price |-> sell.price,
     total_fees |-> DecAdd(buy.fee_rate, sell.fee_rate),
     uses_sdk   |-> FALSE]

\* lines 158-173 once the branch is taken: buy from one pool, sell to the other
trade(buy, sell) ==
    arbitrage_of(buy, sell,
                 profit_pct_at(buy.price, buy.fee_rate, sell.price, sell.fee_rate))

\* the orientation taken from the order of the arguments
calculate_arbitrage_in_order(pool1_data, pool2_data) ==
    IF pool1_data.price = DecZero \/ pool2_data.price = DecZero
    THEN [profitable |-> FALSE, profit_pct |-> DecZero, uses_sdk |-> FALSE]
    ELSE trade(pool1_data, pool2_data)

calculate_arbitrage_simple(pool1_data, pool2_data) ==
    IF pool1_data.price = DecZero \/ pool2_data.price = DecZero
    THEN [profitable |-> FALSE, profit_pct |-> DecZero, uses_sdk |-> FALSE]
    ELSE IF DecLT(pool1_data.price, pool2_data.price)
    THEN trade(pool1_data, pool2_data)
    ELSE trade(pool2_data, pool1_data)

\* every compared pair appended, profitable or not
collect_all(found, pool1, pool2, arb) ==
    Append(found, [pool1 |-> pool1, pool2 |-> pool2, arbitrage |-> arb])

\* lines 198-203: the pair is appended when its arbitrage is profitable
collect(found, pool1, pool2, arb) ==
    IF arb.profitable
    THEN Append(found, [pool1 |-> pool1, pool2 |-> pool2, arbitrage |-> arb])
    ELSE found

\* the two loops of lines 190-203, entered at (i, j) with the opportunities
\* found so far (indices from 1)
RECURSIVE FindFrom(_, _, _, _)
FindFrom(pools, i, j, found) ==
    IF i > Len(pools) THEN found
    ELSE IF j > Len(pools) THEN FindFrom(pools, i + 1, i + 2, found)
    ELSE FindFrom(pools, i, j + 1,
                  collect(found, pools[i], pools[j],
                          calculate_arbitrage_simple(pools[i], pools[j])))

\* the place of seq[i] when seq is sorted by decreasing profit_pct (stable)
ProfitRank(seq, i) ==
    1 + Cardinality({j \in 1..Len(seq) :
          \/ DecLT(seq[i].arbitrage.profit_pct, seq[j].arbitrage.profit_pct)
          \/ seq[j].arbitrage.profit_pct = seq[i].arbitrage.profit_pct /\ j < i})

BestFirst(seq) ==
    [k \in 1..Len(seq) |-> seq[CHOOSE i \in 1..Len(seq) : ProfitRank(seq, i) = k]]

\* the result sorted by profit before it is returned
find_sorted_by_profit(pools) == BestFirst(FindFrom(pools, 1, 2, << >>))

find_arbitrage_opportunities(pools) == FindFrom(pools, 1, 2, << >>)

-----------------------------------------------------------------------------
(* signal.json, lines 367-385                                              *)

\* signal.json is absent (NoFile) or holds one signal s, as << s >>
NoFile == << >>

\* line 373: float(best["profit_pct"] * 100)
float_pct(profit_pct) == to_float(DecMul(profit_pct, DecOfInt(BigOf(100))))

\* float_pct on the profits of ProfitMemo
FloatMemo ==
    [v \in {ProfitMemo[k] : k \in DOMAIN ProfitMemo} |-> float_pct(v)] @@ << >>

float_pct_at(profit_pct) ==
    IF profit_pct \in DOMAIN FloatMemo THEN FloatMemo[profit_pct]
    ELSE float_pct(profit_pct)

\* lines 370-375: the signal of the arbitrage dict best
signal_of(best) ==
    [base       |-> "USDC",
     direction  |-> best.direction,
     profit_pct |-> float_pct_at(best.profit_pct),
     trade_usdc |-> 50]

\* lines 367-385: signal.json after the step, from the file before it
write_signal(opps, file) ==
    IF opps # << >> THEN << signal_of(opps[1].arbitrage) >>
    ELSE IF file # NoFile THEN NoFile
    ELSE file

-----------------------------------------------------------------------------
(* The conversion on its own: two u128 inputs, sqA < sqB, each converted.  *)

\* a value not computed yet is << >>, a computed value v is << v >>
NotRun == << >>
Unused == "unused"

InitPrice ==
    /\ sqA \in SqrtSamples
    /\ sqB \in SqrtSamples
    /\ BigCmp(sqA, sqB) < 0
    /\ priceA = NotRun
    /\ priceB = NotRun
    /\ pc = Unused /\ poll = Unused /\ loadIdx = Unused /\ fetched = Unused
    /\ pools_data = Unused /\ opportunities = Unused
    /\ signal_file = Unused /\ signal_fresh = Unused
    /\ quotes = Unused /\ result = Unused /\ resultRev = Unused

ConvertA ==
    /\ priceA = NotRun
    /\ priceA' = << price_at(sqA) >>
    /\ UNCHANGED << pc, poll, loadIdx, fetched, pools_data, opportunities,
                    signal_file, signal_fresh, quotes, result, resultRev,
                    sqA, sqB, priceB >>

ConvertB ==
    /\ priceB = NotRun
    /\ priceB' = << price_at(sqB) >>
    /\ UNCHANGED << pc, poll, loadIdx, fetched, pools_data, opportunities,
                    signal_file, signal_fresh, quotes, result, resultRev,
                    sqA, sqB, priceA >>

NextPrice == ConvertA \/ ConvertB

SpecPrice == InitPrice /\ [][NextPrice]_vars

-----------------------------------------------------------------------------
(* The comparison on its own: find_arbitrage_opportunities on a sequence   *)
(* of quotes, on the same two quotes swapped, and the signal of lines      *)
(* 367-385 written from its result.                                        *)

MaxQuotes == 3

QuoteName(i) == "Q" \o ToString(i)

InitArb ==
    /\ \E n \in 0..MaxQuotes : \E f \in [1..n -> QuotePrices \X QuoteFees] :
           quotes = [i \in 1..n |-> [name     |-> QuoteName(i),
                                     price    |-> f[i][1],
                                     fee_rate |-> f[i][2]]]
    /\ result = NotRun
    /\ resultRev = NotRun
    /\ signal_file = NoFile
    /\ signal_fresh = FALSE
    /\ pc = Unused /\ poll = Unused /\ loadIdx = Unused /\ fetched = Unused
    /\ pools_data = Unused /\ opportunities = Unused
    /\ sqA = Unused /\ sqB = Unused /\ priceA = Unused /\ priceB = Unused

Find ==
    /\ result = NotRun
    /\ result' = << find_arbitrage_opportunities(quotes) >>
    /\ UNCHANGED << pc, poll, loadIdx, fetched, pools_data, opportunities,
                    signal_file, signal_fresh, quotes, resultRev,
                    sqA, sqB, priceA, priceB >>

FindSwapped ==
    /\ Len(quotes) = 2
    /\ resultRev = NotRun
    /\ resultRev' = << find_arbitrage_opportunities(<< quotes[2], quotes[1] >>) >>
    /\ UNCHANGED << pc, poll, loadIdx, fetched, pools_data, opportunities,
                    signal_file, signal_fresh, quotes, result,
                    sqA, sqB, priceA, priceB >>

WriteSignal ==
    /\ result # NotRun
    /\ ~signal_fresh
    /\ signal_file' = write_signal(result[1], signal_file)
    /\ signal_fresh' = TRUE
    /\ UNCHANGED << pc, poll, loadIdx, fetched, pools_data, opportunities,
                    quotes, result, resultRev, sqA, sqB, priceA, priceB >>

NextArb == Find \/ FindSwapped \/ WriteSignal

SpecArb == InitArb /\ [][NextArb]_vars

-----------------------------------------------------------------------------
(* The program: main, scan after scan.  An iteration loads the registry's  *)
(* pools (lines 223-261), compares the prices when two pools are loaded    *)
(* (264-291), finds the opportunities (322), reports them (324-361) and    *)
(* writes or removes signal.json (367-385).  With POLL_INTERVAL > 0 the    *)
(* loop of lines 397-403 starts the next iteration after the sleep, until  *)
(* the user interrupts it; an exception that main raises ends the process. *)

\* lines 239-257: the entry of pools_data, with the fields the program
\* computes with and the keys of the registry (the balances of the vaults,
\* the liquidity and the ticks are only printed)
pool_entry(predefined, vault_a_info, vault_b_info, info) ==
    [address        |-> predefined.address,
     name           |-> predefined.name,
     price          |-> info.price,
     sqrt_price_x64 |-> info.sqrt_price_x64,
     fee_rate       |-> predefined.fee_rate,
     vault_a        |-> predefined.vault_a,
     vault_b        |-> predefined.vault_b]

\* lines 224-261: the body of the try, and the except that leaves the pool out
loaded(pools, predefined, vault_a_info, vault_b_info, info) ==
    IF vault_a_info = Raised \/ vault_b_info = Raised \/ info = Raised
    THEN pools
    ELSE Append(pools, pool_entry(predefined, vault_a_info, vault_b_info, info))

\* lines 224-261 on the responses resp of the account source
load_pool(pools, predefined, resp) ==
    loaded(pools, predefined,
           get_vault_balance(resp.vault_a, FALSE),
           get_vault_balance(resp.vault_b, TRUE),
           decode_whirlpool(resp.pool))

\* min(a, b) of two Decimals
DecMin(a, b) == IF DecLT(b, a) THEN b ELSE a

\* lines 272-273 and 332: abs(p1 - p2) / min(p1, p2) * 100 divides by zero
\* (decimal.DivisionByZero, or InvalidOperation for 0 / 0) when a price is 0
spread_raises(pools) == DecMin(pools[1].price, pools[2].price) = DecZero

Responses ==
    [vault_a : {Failed, Missing} \cup VaultAAccounts,
     vault_b : {Failed, Missing} \cup VaultBAccounts,
     pool    : {Failed, Missing} \cup PoolAccounts]

Init ==
    /\ pc = "load"
    /\ poll \in BOOLEAN
    /\ loadIdx = 1
    /\ fetched = << >>
    /\ pools_data = << >>
    /\ opportunities = << >>
    /\ signal_file = NoFile
    /\ signal_fresh = FALSE
    /\ quotes = NotRun
    /\ result = NotRun
    /\ resultRev = Unused
    /\ sqA = Unused /\ sqB = Unused /\ priceA = Unused /\ priceB = Unused

\* lines 223-261: one turn of the for loop
LoadPool ==
    /\ pc = "load"
    /\ \E resp \in Responses :
          /\ fetched' = Append(fetched, resp)
          /\ pools_data' = load_pool(pools_data, PREDEFINED_POOLS[loadIdx], resp)
    /\ loadIdx' = loadIdx + 1
    /\ pc' = IF loadIdx = Len(PREDEFINED_POOLS) THEN "compare" ELSE "load"
    /\ UNCHANGED << poll, opportunities, signal_file, signal_fresh, quotes,
                    result, resultRev, sqA, sqB, priceA, priceB >>

\* lines 264-316: the price comparison of exactly two loaded pools, then the
\* list of the loaded pools
Compare ==
    /\ pc = "compare"
    /\ pc' = IF Len(pools_data) = 2 /\ spread_raises(pools_data)
             THEN "raised" ELSE "find"
    /\ UNCHANGED << poll, loadIdx, fetched, pools_data, opportunities,
                    signal_file, signal_fresh, quotes, result, resultRev,
                    sqA, sqB, priceA, priceB >>

\* line 322
FindOpportunities ==
    /\ pc = "find"
    /\ quotes' = << pools_data >>
    /\ result' = << find_arbitrage_opportunities(pools_data) >>
    /\ opportunities' = find_arbitrage_opportunities(pools_data)
    /\ pc' = "report"
    /\ UNCHANGED << poll, loadIdx, fetched, pools_data, signal_file,
                    signal_fresh, resultRev, sqA, sqB, priceA, priceB >>

\* lines 324-365: the report; without an opportunity and with two pools or
\* more it prints the spread again
Report ==
    /\ pc = "report"
    /\ pc' = IF opportunities = << >> /\ Len(pools_data) >= 2
                /\ spread_raises(pools_data)
             THEN "raised" ELSE "signal"
    /\ UNCHANGED << poll, loadIdx, fetched, pools_data, opportunities,
                    signal_file, signal_fresh, quotes, result, resultRev,
                    sqA, sqB, priceA, priceB >>

\* lines 367-385, and the return of main: to the sleep of the loop, or to the
\* end of the program
Signal ==
    /\ pc = "signal"
    /\ signal_file' = write_signal(opportunities, signal_file)
    /\ signal_fresh' = (opportunities # << >>)
    /\ pc' = IF poll THEN "sleep" ELSE "done"
    /\ UNCHANGED << poll, loadIdx, fetched, pools_data, opportunities,
                    quotes, result, resultRev, sqA, sqB, priceA, priceB >>

\* lines 397-403: after the sleep, the next call of main (its locals new)
NextIteration ==
    /\ pc = "sleep"
    /\ pc' = "load"
    /\ loadIdx' = 1
    /\ fetched' = << >>
    /\ pools_data' = << >>
    /\ quotes' = NotRun
    /\ result' = NotRun
    /\ signal_fresh' = FALSE
    /\ UNCHANGED << poll, opportunities, signal_file, resultRev,
                    sqA, sqB, priceA, priceB >>

\* lines 404-405: KeyboardInterrupt during the sleep
Interrupt ==
    /\ pc = "sleep"
    /\ pc' = "done"
    /\ UNCHANGED << poll, loadIdx, fetched, pools_data, opportunities,
                    signal_file, signal_fresh, quotes, result, resultRev,
                    sqA, sqB, priceA, priceB >>

Next ==
    \/ LoadPool
    \/ Compare
    \/ FindOpportunities
    \/ Report
    \/ Signal
    \/ NextIteration
    \/ Interrupt

Spec == Init /\ [][Next]_vars

-----------------------------------------------------------------------------
(* Properties of the conversion (SpecPrice)                                *)

Converted == priceA # NotRun /\ priceB # NotRun

\* C9 as stated: for a < b in [0, 2^128), price(a) < price(b), and
\* price(0) = 0
C9_StrictlyIncreasing ==
    /\ Converted => DecLT(priceA[1], priceB[1])
    /\ (priceA # NotRun /\ sqA = << >>) => priceA[1] = DecZero

\* C9, amended: the conversion never decreases (for a < b, price(a) <=
\* price(b)), sqrt_price_to_price(0) = 0, and a non-zero input has a
\* price above 0
C9_NonDecreasing ==
    /\ Converted => ~DecLT(priceB[1], priceA[1])
    /\ (priceA # NotRun /\ sqA = << >>) => priceA[1] = DecZero
    /\ priceB # NotRun => DecLT(DecZero, priceB[1])

\* two different non-zero inputs converted to the same price
C9_Witness ==
    /\ Converted
    /\ sqA # << >>
    /\ priceA[1] = priceB[1]

-----------------------------------------------------------------------------
(* Properties of the comparison (SpecArb)                                  *)

Found == result # NotRun

PairsOf(n) == {p \in (1..n) \X (1..n) : p[1] < p[2]}

\* the entry of the result for the pair (quotes[i], quotes[j]), if any
EntriesOf(i, j) ==
    {k \in 1..Len(result[1]) : /\ result[1][k].pool1 = quotes[i]
                               /\ result[1][k].pool2 = quotes[j]}

\* profitPct of two quotes with non-zero prices, bought from the lower-priced
LowerOf(a, b) == IF DecLT(b.price, a.price) THEN b ELSE a
HigherOf(a, b) == IF DecLT(b.price, a.price) THEN a ELSE b
PairProfit(a, b) ==
    profit_pct_at(LowerOf(a, b).price, LowerOf(a, b).fee_rate,
                  HigherOf(a, b).price, HigherOf(a, b).fee_rate)

NonZeroPair(i, j) == quotes[i].price # DecZero /\ quotes[j].price # DecZero

\* C1: a pair (i < j) has an entry exactly when both prices are non-zero and
\* profitPct >= 0.00001; the entry carries that profitPct, is profitable,
\* and is optimal exactly when profitPct >= 0.0001 (so exactly 0.00001 is
\* PROFITABLE and not optimal, exactly 0.0001 is OPTIMAL, and a pair below
\* 0.00001 has no entry)
C1_Thresholds ==
    Found =>
        \A p \in PairsOf(Len(quotes)) :
            /\ EntriesOf(p[1], p[2]) # {}
                 <=> /\ NonZeroPair(p[1], p[2])
                     /\ DecGE(PairProfit(quotes[p[1]], quotes[p[2]]),
                              DecLit(1, 5))
            /\ \A k \in EntriesOf(p[1], p[2]) :
                 /\ result[1][k].arbitrage.profit_pct
                      = PairProfit(quotes[p[1]], quotes[p[2]])
                 /\ result[1][k].arbitrage.profitable
                 /\ result[1][k].arbitrage.optimal
                      <=> DecGE(result[1][k].arbitrage.profit_pct, DecLit(1, 4))

\* one result with a pair at exactly 0.00001 (PROFITABLE) and a pair at
\* exactly 0.0001 (OPTIMAL)
C1_Witness ==
    /\ Found
    /\ \E k \in 1..Len(result[1]) :
          /\ result[1][k].arbitrage.profit_pct = DecLit(1, 5)
          /\ ~result[1][k].arbitrage.optimal
    /\ \E k \in 1..Len(result[1]) :
          /\ result[1][k].arbitrage.profit_pct = DecLit(1, 4)
          /\ result[1][k].arbitrage.optimal
    /\ \E p \in PairsOf(Len(quotes)) :
          /\ NonZeroPair(p[1], p[2])
          /\ EntriesOf(p[1], p[2]) = {}

\* C2: no returned opportunity has a participant whose spot price is 0
C2_NoZeroParticipant ==
    Found =>
        \A k \in 1..Len(result[1]) :
            /\ result[1][k].pool1.price # DecZero
            /\ result[1][k].pool2.price # DecZero

\* a zero-priced quote compared with others, beside a pair that is returned
C2_Witness ==
    /\ Found
    /\ Len(result[1]) > 0
    /\ \E i \in 1..Len(quotes) : quotes[i].price = DecZero
    /\ \E i \in 1..Len(quotes) : quotes[i].price # DecZero

\* C3: every returned opportunity has buy_price < sell_price, and two quotes
\* with equal non-zero prices never produce an opportunity
C3_StrictOrder ==
    Found =>
        /\ \A k \in 1..Len(result[1]) :
              DecLT(result[1][k].arbitrage.buy_price,
                    result[1][k].arbitrage.sell_price)
        /\ \A p \in PairsOf(Len(quotes)) :
              quotes[p[1]].price = quotes[p[2]].price
                  => EntriesOf(p[1], p[2]) = {}

\* two quotes of equal non-zero price with both fee rates 0, beside a pair
\* that is returned
C3_Witness ==
    /\ Found
    /\ Len(result[1]) > 0
    /\ \E p \in PairsOf(Len(quotes)) :
          /\ quotes[p[1]].price = quotes[p[2]].price
          /\ quotes[p[1]].price # DecZero
          /\ quotes[p[1]].fee_rate = DecZero
          /\ quotes[p[2]].fee_rate = DecZero

\* C4: [A, B] and [B, A] give the same number of opportunities, and the
\* opportunity, when there is one, has the same direction, buy_price,
\* sell_price and profit_pct in both
C4_Symmetric ==
    (Found /\ resultRev # NotRun) =>
        /\ Len(result[1]) = Len(resultRev[1])
        /\ \A k \in 1..Len(result[1]) :
              /\ result[1][k].arbitrage = resultRev[1][k].arbitrage
              /\ result[1][k].arbitrage.direction
                   = Direction(LowerOf(quotes[1], quotes[2]).name,
                               HigherOf(quotes[1], quotes[2]).name)
              /\ result[1][k].pool1 = resultRev[1][k].pool2
              /\ result[1][k].pool2 = resultRev[1][k].pool1

\* an opportunity found in both orders, the dearer quote first in quotes
C4_Witness ==
    /\ Found
    /\ resultRev # NotRun
    /\ Len(result[1]) = 1
    /\ DecLT(quotes[2].price, quotes[1].price)

\* the position in quotes of a pool of an entry
PosOf(pool) == CHOOSE i \in 1..Len(quotes) : quotes[i] = pool

\* (i, j) comes before (k, l) in the order of the two loops
PairBefore(i, j, k, l) == i < k \/ (i = k /\ j < l)

\* C5: the result lists the emitted pairs in pair-iteration order, each pair
\* (i < j) at most once, and the signal a scan writes carries the direction
\* and the profit of its first element
C5_IterationOrder ==
    /\ Found =>
          /\ \A k \in 1..Len(result[1]) :
                PosOf(result[1][k].pool1) < PosOf(result[1][k].pool2)
          /\ \A k \in 1..Len(result[1]) : \A l \in (k + 1)..Len(result[1]) :
                PairBefore(PosOf(result[1][k].pool1), PosOf(result[1][k].pool2),
                           PosOf(result[1][l].pool1), PosOf(result[1][l].pool2))
    /\ (Found /\ signal_fresh) =>
          IF result[1] = << >> THEN signal_file = NoFile
          ELSE /\ signal_file # NoFile
               /\ signal_file[1].direction = result[1][1].arbitrage.direction
               /\ signal_file[1].profit_pct
                    = float_pct_at(result[1][1].arbitrage.profit_pct)

\* a signal written from a first element that is less profitable than a
\* later one
C5_Witness ==
    /\ Found
    /\ signal_fresh
    /\ signal_file # NoFile
    /\ \E l \in 2..Len(result[1]) :
          DecLT(result[1][1].arbitrage.profit_pct,
                result[1][l].arbitrage.profit_pct)

-----------------------------------------------------------------------------
(* Properties of the scan (Spec)                                           *)

Unfetched(r) == r = Failed \/ r = Missing

WellSized(r) == r.kind = "account" /\ r.len = 653

\* the entry of pools_data for the registry's pool i, from its account
EntryOf(i) ==
    [address        |-> PREDEFINED_POOLS[i].address,
     name           |-> PREDEFINED_POOLS[i].name,
     price          |-> price_at(int_at(fetched[i].pool.sqrt)),
     sqrt_price_x64 |-> int_at(fetched[i].pool.sqrt),
     fee_rate       |-> PREDEFINED_POOLS[i].fee_rate,
     vault_a        |-> PREDEFINED_POOLS[i].vault_a,
     vault_b        |-> PREDEFINED_POOLS[i].vault_b]

\* the pools asked for so far whose account came back with 653 bytes, in
\* the order of the registry
WellSizedPools ==
    SelectSeq([i \in 1..Len(fetched) |-> i], LAMBDA i : WellSized(fetched[i].pool))

Included(i) ==
    \E k \in 1..Len(pools_data) : pools_data[k].name = PREDEFINED_POOLS[i].name

\* C6: a pool whose account is not exactly 653 bytes long is left out of
\* pools_data without stopping the scan, and the quotes passed to
\* find_arbitrage_opportunities are exactly the registry's pools whose
\* account was returned with 653 bytes, in registry order
C6_OnlyLength653 ==
    /\ pools_data = [k \in 1..Len(WellSizedPools) |-> EntryOf(WellSizedPools[k])]
    /\ quotes # NotRun =>
          /\ quotes[1] = pools_data
          /\ Len(fetched) = Len(PREDEFINED_POOLS)
    /\ (\E i \in 1..Len(fetched) :
            fetched[i].pool.kind = "account" /\ fetched[i].pool.len # 653)
          => pc # "raised"

\* find_arbitrage_opportunities called after one pool came back too long or
\* too short and the other with 653 bytes
C6_Witness ==
    /\ pc = "report"
    /\ Len(quotes[1]) = 1
    /\ \E i \in 1..Len(fetched) :
          fetched[i].pool.kind = "account" /\ fetched[i].pool.len # 653

\* C7 as stated: a pool with a fetch failure on any of its addresses (the
\* pool account, vault A or vault B) is excluded from pools_data
C7_AnyFailureExcludes ==
    \A i \in 1..Len(fetched) :
        (\/ Unfetched(fetched[i].pool)
         \/ Unfetched(fetched[i].vault_a)
         \/ Unfetched(fetched[i].vault_b)) => ~Included(i)

\* C7, amended: a pool whose pool account could not be fetched is excluded
\* from pools_data and the scan goes on; a pool whose vault A or vault B
\* could not be fetched is loaded all the same when its pool account is a
\* 653-byte account
C7_PoolFailureExcludes ==
    /\ \A i \in 1..Len(fetched) :
          /\ Unfetched(fetched[i].pool) => ~Included(i)
          /\ WellSized(fetched[i].pool) => Included(i)
    /\ (\E i \in 1..Len(fetched) : Unfetched(fetched[i].pool)) => pc # "raised"

\* a scan that reached line 322 with one pool left out for its pool account
\* and the other loaded although both of its vaults failed
C7_Witness ==
    /\ pc = "report"
    /\ \E i \in 1..Len(fetched) : Unfetched(fetched[i].pool)
    /\ \E i \in 1..Len(fetched) :
          /\ fetched[i].vault_a = Failed
          /\ fetched[i].vault_b = Missing
          /\ Included(i)

\* this iteration of main found at least one opportunity
FoundNow == result # NotRun /\ result[1] # << >>

\* C8: after each iteration of main (returned or failed), signal.json exists
\* if and only if that iteration found an opportunity, and its content comes
\* from that iteration
C8_SignalIffFound ==
    pc \in {"sleep", "done", "raised"} =>
        /\ signal_file # NoFile <=> FoundNow
        /\ signal_file # NoFile =>
              signal_fresh /\ signal_file = << signal_of(result[1][1].arbitrage) >>

\* C10: a scan that loaded a pool with spot price 0 raises nothing
C10_ZeroPriceNoError ==
    (\E k \in 1..Len(pools_data) : pools_data[k].price = DecZero)
        => pc # "raised"

=============================================================================
